---- MODULE Spec2Model ----
(***************************************************************************)
(* Model of the access-module-encoding scripts:                            *)
(*   check_access_module_encoding.py      (the checker)                    *)
(*   fix_access_mojibake.py               (the mojibake fixer)             *)
(*   normalize_access_module_encoding.py  (the normalizer)                 *)
(*                                                                         *)
(* A byte string is a sequence of numbers 0..255, a text (Python str) is a *)
(* sequence of Unicode code points.  The codecs the scripts call           *)
(* (bytes.decode / str.encode for utf-8, utf-8-sig, utf-16, cp1252, ascii) *)
(* are modelled by what CPython's codecs do, failures included: a codec    *)
(* result is a record [ok, val], ok = FALSE standing for the               *)
(* UnicodeDecodeError / UnicodeEncodeError the call raises.                *)
(***************************************************************************)
EXTENDS Integers, Sequences, FiniteSets, TLC

\* ------------------------------------------------------------------------
\* Bounds of the model
\* ------------------------------------------------------------------------

\* longest file of the pure-function specification, counted in chunks
MaxChunks == 3

\* number of paths on the command line of a modelled batch run
MaxFiles == 2

\* ------------------------------------------------------------------------
\* Codecs (CPython semantics)
\* ------------------------------------------------------------------------

Good(v) == [ok |-> TRUE, val |-> v]

Bad == [ok |-> FALSE, val |-> <<>>]

Tail2(s, n) == SubSeq(s, n + 1, Len(s))

IsCont(b) == b >= 128 /\ b <= 191

\* Length of the well-formed UTF-8 sequence at the head of b, 0 when the head
\* is ill-formed (strict decoding: no overlong forms, no surrogates, nothing
\* above U+10FFFF).
Utf8HeadLen(b) ==
    LET b1 == b[1] IN
    IF b1 < 128 THEN 1
    ELSE IF b1 >= 194 /\ b1 <= 223 THEN
        IF Len(b) >= 2 /\ IsCont(b[2]) THEN 2 ELSE 0
    ELSE IF b1 >= 224 /\ b1 <= 239 THEN
        IF /\ Len(b) >= 3
           /\ IsCont(b[2])
           /\ IsCont(b[3])
           /\ (b1 = 224 => b[2] >= 160)
           /\ (b1 = 237 => b[2] <= 159)
        THEN 3 ELSE 0
    ELSE IF b1 >= 240 /\ b1 <= 244 THEN
        IF /\ Len(b) >= 4
           /\ IsCont(b[2])
           /\ IsCont(b[3])
           /\ IsCont(b[4])
           /\ (b1 = 240 => b[2] >= 144)
           /\ (b1 = 244 => b[2] <= 143)
        THEN 4 ELSE 0
    ELSE 0

Utf8HeadCp(b, n) ==
    IF n = 1 THEN b[1]
    ELSE IF n = 2 THEN (b[1] - 192) * 64 + (b[2] - 128)
    ELSE IF n = 3 THEN (b[1] - 224) * 4096 + (b[2] - 128) * 64 + (b[3] - 128)
    ELSE (b[1] - 240) * 262144 + (b[2] - 128) * 4096 + (b[3] - 128) * 64 + (b[4] - 128)

RECURSIVE Utf8Decode(_)
\* bytes.decode("utf-8")
Utf8Decode(b) ==
    IF b = <<>> THEN Good(<<>>)
    ELSE LET n == Utf8HeadLen(b) IN
         IF n = 0 THEN Bad
         ELSE LET rest == Utf8Decode(Tail2(b, n)) IN
              IF rest.ok THEN Good(<<Utf8HeadCp(b, n)>> \o rest.val) ELSE Bad

IsSurrogate(c) == c >= 55296 /\ c <= 57343

Utf8EncodeCp(c) ==
    IF c < 128 THEN <<c>>
    ELSE IF c < 2048 THEN <<192 + (c \div 64), 128 + (c % 64)>>
    ELSE IF c < 65536 THEN
        <<224 + (c \div 4096), 128 + ((c \div 64) % 64), 128 + (c % 64)>>
    ELSE <<240 + (c \div 262144), 128 + ((c \div 4096) % 64),
           128 + ((c \div 64) % 64), 128 + (c % 64)>>

RECURSIVE Utf8Encode(_)
\* str.encode("utf-8"): a lone surrogate raises UnicodeEncodeError
Utf8Encode(t) ==
    IF t = <<>> THEN Good(<<>>)
    ELSE IF IsSurrogate(t[1]) THEN Bad
    ELSE LET rest == Utf8Encode(Tail(t)) IN
         IF rest.ok THEN Good(Utf8EncodeCp(t[1]) \o rest.val) ELSE Bad

HasUtf8Bom(b) == Len(b) >= 3 /\ b[1] = 239 /\ b[2] = 187 /\ b[3] = 191

HasUtf16LeBom(b) == Len(b) >= 2 /\ b[1] = 255 /\ b[2] = 254

HasUtf16BeBom(b) == Len(b) >= 2 /\ b[1] = 254 /\ b[2] = 255

\* bytes.decode("utf-8-sig"): one leading BOM is dropped, if there is one
Utf8SigDecode(b) == IF HasUtf8Bom(b) THEN Utf8Decode(Tail2(b, 3)) ELSE Utf8Decode(b)

RECURSIVE Utf16Units(_, _)
\* decoding of 16-bit units in the byte order le; a truncated unit or an
\* unpaired surrogate raises UnicodeDecodeError
Utf16Units(b, le) ==
    IF b = <<>> THEN Good(<<>>)
    ELSE IF Len(b) < 2 THEN Bad
    ELSE LET u == IF le THEN b[1] + 256 * b[2] ELSE 256 * b[1] + b[2] IN
         IF u >= 55296 /\ u <= 56319 THEN
             IF Len(b) < 4 THEN Bad
             ELSE LET v == IF le THEN b[3] + 256 * b[4] ELSE 256 * b[3] + b[4] IN
                  IF v >= 56320 /\ v <= 57343 THEN
                      LET rest == Utf16Units(Tail2(b, 4), le) IN
                      IF rest.ok
                      THEN Good(<<65536 + (u - 55296) * 1024 + (v - 56320)>> \o rest.val)
                      ELSE Bad
                  ELSE Bad
         ELSE IF u >= 56320 /\ u <= 57343 THEN Bad
         ELSE LET rest == Utf16Units(Tail2(b, 2), le) IN
              IF rest.ok THEN Good(<<u>> \o rest.val) ELSE Bad

\* bytes.decode("utf-16"): the BOM selects the byte order and is consumed;
\* without a BOM the codec decodes little-endian
Utf16Decode(b) ==
    IF HasUtf16LeBom(b) THEN Utf16Units(Tail2(b, 2), TRUE)
    ELSE IF HasUtf16BeBom(b) THEN Utf16Units(Tail2(b, 2), FALSE)
    ELSE Utf16Units(b, TRUE)

\* code points of the bytes 0x80..0x9F in CPython's cp1252 table; 0 marks the
\* five bytes the table leaves undefined (0x81 0x8D 0x8F 0x90 0x9D)
Cp1252High ==
    << 8364, 0, 8218, 402, 8222, 8230, 8224, 8225,
       710, 8240, 352, 8249, 338, 0, 381, 0,
       0, 8216, 8217, 8220, 8221, 8226, 8211, 8212,
       732, 8482, 353, 8250, 339, 0, 382, 376 >>

RECURSIVE Cp1252Decode(_)
\* bytes.decode("cp1252")
Cp1252Decode(b) ==
    IF b = <<>> THEN Good(<<>>)
    ELSE LET c == IF b[1] < 128 \/ b[1] >= 160 THEN b[1] ELSE Cp1252High[b[1] - 127] IN
         IF c = 0 /\ b[1] # 0 THEN Bad
         ELSE LET rest == Cp1252Decode(Tail(b)) IN
              IF rest.ok THEN Good(<<c>> \o rest.val) ELSE Bad

Cp1252EncodeCp(c) ==
    IF c < 128 \/ (c >= 160 /\ c <= 255) THEN c
    ELSE IF \E i \in 1..32 : Cp1252High[i] = c
         THEN 127 + (CHOOSE i \in 1..32 : Cp1252High[i] = c)
         ELSE 0 - 1

RECURSIVE Cp1252Encode(_)
\* str.encode("cp1252")
Cp1252Encode(t) ==
    IF t = <<>> THEN Good(<<>>)
    ELSE LET b == Cp1252EncodeCp(t[1]) IN
         IF b < 0 THEN Bad
         ELSE LET rest == Cp1252Encode(Tail(t)) IN
              IF rest.ok THEN Good(<<b>> \o rest.val) ELSE Bad

\* bytes.decode("ascii")
AsciiDecode(b) == IF \A i \in 1..Len(b) : b[i] < 128 THEN Good(b) ELSE Bad

\* str.encode("ascii")
AsciiEncode(t) == IF \A i \in 1..Len(t) : t[i] < 128 THEN Good(t) ELSE Bad

\* ------------------------------------------------------------------------
\* Classification and decoding (the three scripts carry identical copies of
\* _classify_bytes; the fixer and the normalizer carry identical copies of
\* classify and decode_bytes)
\* ------------------------------------------------------------------------

\* _classify_bytes(data): (label, payload)
classify_bytes(data) ==
    IF HasUtf8Bom(data) THEN
        IF Utf8Decode(Tail2(data, 3)).ok
        THEN [label |-> "utf8-bom", payload |-> Tail2(data, 3)]
        ELSE [label |-> "utf8-bom-invalid", payload |-> Tail2(data, 3)]
    ELSE IF HasUtf16LeBom(data) THEN [label |-> "utf16-le", payload |-> data]
    ELSE IF HasUtf16BeBom(data) THEN [label |-> "utf16-be", payload |-> data]
    ELSE IF \E i \in 1..Len(data) : data[i] = 0 THEN [label |-> "binary", payload |-> data]
    ELSE IF Utf8Decode(data).ok THEN [label |-> "utf8", payload |-> data]
    ELSE [label |-> "ansi-cp1252", payload |-> data]

\* any(b >= 0x80 for b in payload)
AnyHigh(payload) == \E i \in 1..Len(payload) : payload[i] >= 128

\* checker: classify_file after _classify_bytes returned c
classify_file_of(data, c) ==
    IF ~AnyHigh(c.payload)
    THEN [label |-> "ascii-only", size |-> Len(data), non_ascii |-> FALSE, ok |-> TRUE]
    ELSE [label |-> c.label, size |-> Len(data), non_ascii |-> TRUE, ok |-> TRUE]

\* checker: classify_file(path): (label, size, non_ascii, ok)
classify_file(data) == classify_file_of(data, classify_bytes(data))

\* fixer: classify after _classify_bytes returned c
fix_classify_of(c) ==
    IF c.label \in {"utf8", "ansi-cp1252"} /\ ~AnyHigh(c.payload)
    THEN "ascii-only"
    ELSE c.label

\* fixer: classify(data)
fix_classify(data) == fix_classify_of(classify_bytes(data))

\* normalizer: classify after _classify_bytes returned c
norm_classify_of(c) ==
    IF c.label \in {"utf8", "ansi-cp1252"} /\ ~AnyHigh(c.payload)
    THEN "ascii-only"
    ELSE c.label

\* normalizer: classify(data)
norm_classify(data) == norm_classify_of(classify_bytes(data))

\* the labels decode_bytes has a rule for; for any other it returns None
Decodable == {"utf8", "utf8-bom", "ascii-only", "ansi-cp1252", "utf16-le", "utf16-be"}

DecodeResult(label, r) == [ok |-> r.ok, val |-> r.val, none |-> label \notin Decodable]

\* decode_bytes(data, label): [ok, none, val]; ok = FALSE is UnicodeDecodeError,
\* none = TRUE is the None returned for a label without a decode rule
decode_bytes(data, label) ==
    DecodeResult(label,
        IF label = "utf8" THEN Utf8Decode(data)
        ELSE IF label = "utf8-bom" THEN Utf8SigDecode(data)
        ELSE IF label = "ascii-only" THEN AsciiDecode(data)
        ELSE IF label = "ansi-cp1252" THEN Cp1252Decode(data)
        ELSE IF label \in {"utf16-le", "utf16-be"} THEN Utf16Decode(data)
        ELSE Good(<<>>))

\* fixer: encode_text(text, label)
encode_text(text, label) ==
    IF label = "ansi-cp1252" THEN Cp1252Encode(text)
    ELSE IF label = "ascii-only" THEN AsciiEncode(text)
    ELSE Utf8Encode(text)

\* ------------------------------------------------------------------------
\* Mojibake score and repair (fixer)
\* ------------------------------------------------------------------------

SUSPICIOUS_TOKENS == << <<195>>, <<194>>, <<226, 8364>>, <<65533>> >>

SPANISH_DEFAULTS ==
    <<
       <<<<109, 65533, 116, 111, 100, 111>>, <<109, 233, 116, 111, 100, 111>>>>,
       <<<<83, 65533>>, <<83, 237>>>>,
       <<<<114, 97, 65533, 122>>, <<114, 97, 237, 122>>>>,
       <<<<101, 100, 105, 99, 105, 65533, 110>>, <<101, 100, 105, 99, 105, 243, 110>>>>,
       <<<<112, 95, 65, 65533, 111>>, <<112, 95, 65, 241, 111>>>>,
       <<<<112, 97, 114, 65533, 109, 101, 116, 114, 111>>, <<112, 97, 114, 225, 109, 101, 116, 114, 111>>>>,
       <<<<80, 114, 111, 112, 65533, 115, 105, 116, 111>>, <<80, 114, 111, 112, 243, 115, 105, 116, 111>>>>,
       <<<<80, 97, 114, 65533, 109, 101, 116, 114, 111, 115>>, <<80, 97, 114, 225, 109, 101, 116, 114, 111, 115>>>>,
       <<<<115, 101, 103, 65533, 110>>, <<115, 101, 103, 250, 110>>>>,
       <<<<106, 101, 114, 65533, 114, 113, 117, 105, 99, 111>>, <<106, 101, 114, 225, 114, 113, 117, 105, 99, 111>>>>,
       <<<<76, 65533, 103, 105, 99, 97>>, <<76, 243, 103, 105, 99, 97>>>>,
       <<<<77, 65533, 120, 68, 101, 73, 68, 69, 100, 105, 99, 105, 111, 110>>, <<77, 225, 120, 68, 101, 73, 68, 69, 100, 105, 99, 105, 111, 110>>>>,
       <<<<99, 111, 110, 101, 120, 105, 65533, 110>>, <<99, 111, 110, 101, 120, 105, 243, 110>>>>,
       <<<<86, 97, 108, 105, 100, 97, 99, 105, 65533, 110>>, <<86, 97, 108, 105, 100, 97, 99, 105, 243, 110>>>>,
       <<<<108, 65533, 103, 105, 99, 97>>, <<108, 243, 103, 105, 99, 97>>>>,
       <<<<112, 117, 98, 108, 105, 99, 97, 99, 105, 65533, 110>>, <<112, 117, 98, 108, 105, 99, 97, 99, 105, 243, 110>>>>,
       <<<<65533, 68, 101, 115, 101, 97>>, <<191, 68, 101, 115, 101, 97>>>>,
       <<<<97, 99, 99, 105, 65533, 110>>, <<97, 99, 99, 105, 243, 110>>>>,
       <<<<77, 65533, 110, 68, 101, 73, 68, 69, 100, 105, 99, 105, 111, 110>>, <<77, 237, 110, 68, 101, 73, 68, 69, 100, 105, 99, 105, 111, 110>>>>,
       <<<<106, 101, 114, 65533, 114, 113, 117, 105, 99, 97>>, <<106, 101, 114, 225, 114, 113, 117, 105, 99, 97>>>>,
       <<<<110, 117, 109, 65533, 114, 105, 99, 111>>, <<110, 117, 109, 233, 114, 105, 99, 111>>>>,
       <<<<112, 97, 114, 65533, 109, 101, 116, 114, 111, 115>>, <<112, 97, 114, 225, 109, 101, 116, 114, 111, 115>>>>,
       <<<<67, 111, 110, 115, 116, 114, 117, 99, 99, 105, 65533, 110>>, <<67, 111, 110, 115, 116, 114, 117, 99, 99, 105, 243, 110>>>>,
       <<<<69, 106, 101, 99, 117, 99, 105, 65533, 110>>, <<69, 106, 101, 99, 117, 99, 105, 243, 110>>>>,
       <<<<118, 105, 115, 117, 97, 108, 105, 122, 97, 99, 105, 65533, 110>>, <<118, 105, 115, 117, 97, 108, 105, 122, 97, 99, 105, 243, 110>>>>,
       <<<<78, 101, 109, 111, 116, 65533, 99, 110, 105, 99, 111>>, <<78, 101, 109, 111, 116, 233, 99, 110, 105, 99, 111>>>>,
       <<<<118, 97, 108, 105, 100, 97, 99, 105, 65533, 110>>, <<118, 97, 108, 105, 100, 97, 99, 105, 243, 110>>>>,
       <<<<84, 101, 108, 101, 102, 65533, 110, 105, 99, 97>>, <<84, 101, 108, 101, 102, 243, 110, 105, 99, 97>>>>,
       <<<<65533, 114, 98, 111, 108>>, <<225, 114, 98, 111, 108>>>>,
       <<<<83, 65533, 108, 111>>, <<83, 243, 108, 111>>>>,
       <<<<97, 65533, 111>>, <<97, 241, 111>>>>,
       <<<<110, 65533, 109, 101, 114, 111>>, <<110, 250, 109, 101, 114, 111>>>>,
       <<<<101, 115, 116, 65533>>, <<101, 115, 116, 225>>>>,
       <<<<84, 65533, 67, 78, 73, 67, 65>>, <<84, 201, 67, 78, 73, 67, 65>>>>
    >>

StartsWith(t, k) == Len(t) >= Len(k) /\ SubSeq(t, 1, Len(k)) = k

RECURSIVE Count(_, _)
\* str.count(token): non-overlapping occurrences, left to right
Count(t, token) ==
    IF Len(t) < Len(token) THEN 0
    ELSE IF StartsWith(t, token) THEN 1 + Count(Tail2(t, Len(token)), token)
    ELSE Count(Tail(t), token)

RECURSIVE SumCounts(_, _)
SumCounts(t, i) ==
    IF i > Len(SUSPICIOUS_TOKENS) THEN 0
    ELSE Count(t, SUSPICIOUS_TOKENS[i]) + SumCounts(t, i + 1)

\* mojibake_score(text)
mojibake_score(text) == SumCounts(text, 1)

RECURSIVE Replace(_, _, _)
\* str.replace(key, value) for a non-empty key
Replace(t, key, value) ==
    IF Len(t) < Len(key) THEN t
    ELSE IF StartsWith(t, key) THEN value \o Replace(Tail2(t, Len(key)), key, value)
    ELSE <<t[1]>> \o Replace(Tail(t), key, value)

RECURSIVE ApplyFrom(_, _, _)
ApplyFrom(text, mapping, i) ==
    IF i > Len(mapping) THEN text
    ELSE ApplyFrom(Replace(text, mapping[i][1], mapping[i][2]), mapping, i + 1)

\* apply_map(text, mapping): the mapping is the dict's items in insertion order
apply_map(text, mapping) == ApplyFrom(text, mapping, 1)

\* the line boundaries of str.splitlines
LineBreaks == {10, 11, 12, 13, 28, 29, 30, 133, 8232, 8233}

RECURSIVE SplitAcc(_, _)
SplitAcc(t, cur) ==
    IF t = <<>> THEN (IF cur = <<>> THEN <<>> ELSE <<cur>>)
    ELSE IF t[1] = 13 /\ Len(t) >= 2 /\ t[2] = 10
         THEN <<cur \o <<13, 10>>>> \o SplitAcc(Tail2(t, 2), <<>>)
    ELSE IF t[1] \in LineBreaks
         THEN <<cur \o <<t[1]>>>> \o SplitAcc(Tail(t), <<>>)
    ELSE SplitAcc(Tail(t), cur \o <<t[1]>>)

\* text.splitlines(keepends=True)
SplitLines(text) == SplitAcc(text, <<>>)

RECURSIVE Join(_)
\* "".join(lines)
Join(lines) == IF lines = <<>> THEN <<>> ELSE lines[1] \o Join(Tail(lines))

ReencodeOf(e) == IF e.ok THEN Utf8Decode(e.val) ELSE Bad

\* text.encode("cp1252").decode("utf-8"); ok = FALSE when either step raises
Reencode(text) == ReencodeOf(Cp1252Encode(text))

\* repair_line_of without the score test: a line is replaced whenever its
\* round trip succeeds
repair_line_ungated(line, r) ==
    IF r.ok THEN [text |-> r.val, changed |-> TRUE]
    ELSE [text |-> line, changed |-> FALSE]

\* the body of the fallback loop for one line, r its round trip: the line is
\* replaced (and changed set) when the round trip succeeds and lowers the
\* line's score
repair_line_of(line, r) ==
    IF r.ok THEN
        IF mojibake_score(r.val) < mojibake_score(line)
        THEN [text |-> r.val, changed |-> TRUE]
        ELSE [text |-> line, changed |-> FALSE]
    ELSE [text |-> line, changed |-> FALSE]

repair_line(line) == repair_line_of(line, Reencode(line))

\* the fallback loop over lines: what it appends to new_lines, line by line
repair_lines(lines) == [i \in 1..Len(lines) |-> repair_line(lines[i])]

\* the end of the fallback: the aggregate is kept only if some line changed
\* and the score of the whole text went down
fix_by_lines_of(text, rep) ==
    IF ~(\E i \in 1..Len(rep) : rep[i].changed) THEN [text |-> text, changed |-> FALSE]
    ELSE IF mojibake_score(Join([i \in 1..Len(rep) |-> rep[i].text])) < mojibake_score(text)
    THEN [text |-> Join([i \in 1..Len(rep) |-> rep[i].text]), changed |-> TRUE]
    ELSE [text |-> text, changed |-> FALSE]

fix_by_lines(text) == fix_by_lines_of(text, repair_lines(SplitLines(text)))

\* fix_whole_of without the score test: a successful round trip of the whole
\* text is always taken
fix_whole_ungated(text, whole) ==
    IF whole.ok THEN [text |-> whole.val, changed |-> whole.val # text]
    ELSE fix_by_lines(text)

\* fix_utf8_in_cp1252 once the whole-text round trip gave whole
fix_whole_of(text, whole) ==
    IF whole.ok THEN
        IF mojibake_score(whole.val) < mojibake_score(text)
        THEN [text |-> whole.val, changed |-> TRUE]
        ELSE [text |-> text, changed |-> FALSE]
    ELSE fix_by_lines(text)

\* fix_utf8_in_cp1252(text): (text, changed)
fix_utf8_in_cp1252(text) == fix_whole_of(text, Reencode(text))

\* ------------------------------------------------------------------------
\* Files.  A path of the batch holds a regular file or nothing; its backup
\* path (path.name + backup_ext) likewise.  io is what the operating system
\* does to the call: "ok", "read" (path.read_bytes raises, e.g. no read
\* permission) or "write" (path.write_bytes(new content) raises, e.g. a
\* read-only file).
\*
\* normalize_file is modelled in the order of its statements, each stage
\* taking the values computed so far.  Its result is [exc, label, action,
\* (before, after,) file, bak]: exc = TRUE when an exception leaves the
\* function, file and bak the contents of the path and of its backup path
\* when the call ends.
\* ------------------------------------------------------------------------

Absent == [exists |-> FALSE, data |-> <<>>]

File(d) == [exists |-> TRUE, data |-> d]

IoOutcomes == {"ok", "read", "write"}

NormRet(label, action, file, bak) ==
    [exc |-> FALSE, label |-> label, action |-> action, file |-> file, bak |-> bak]

NormRaise(label, file, bak) ==
    [exc |-> TRUE, label |-> label, action |-> "raise", file |-> file, bak |-> bak]

\* norm_write without the backup_path.exists() test: an existing backup is
\* overwritten
norm_write_no_guard(data, bak, dry_run, backup, io, label, new_bytes) ==
    IF ~new_bytes.ok THEN NormRaise(label, data, bak)
    ELSE IF new_bytes.val = data THEN NormRet(label, "ok", data, bak)
    ELSE IF dry_run THEN NormRet(label, "dry-run", data, bak)
    ELSE IF io = "write" THEN NormRaise(label, data, IF backup THEN File(data) ELSE bak)
    ELSE NormRet(label, "write", new_bytes.val, IF backup THEN File(data) ELSE bak)

\* normalizer normalize_file, from new_bytes = text.encode("utf-8") on
norm_write(data, bak, dry_run, backup, io, label, new_bytes) ==
    IF ~new_bytes.ok THEN NormRaise(label, data, bak)
    ELSE IF new_bytes.val = data THEN NormRet(label, "ok", data, bak)
    ELSE IF dry_run THEN NormRet(label, "dry-run", data, bak)
    ELSE IF backup THEN
        IF bak.exists THEN NormRet(label, "backup-exists", data, bak)
        ELSE IF io = "write" THEN NormRaise(label, data, File(data))
        ELSE NormRet(label, "write", new_bytes.val, File(data))
    ELSE IF io = "write" THEN NormRaise(label, data, bak)
    ELSE NormRet(label, "write", new_bytes.val, bak)

\* normalizer normalize_file, the try block around decode_bytes
norm_decoded(data, bak, dry_run, backup, io, label, dec) ==
    IF ~dec.ok THEN NormRet(label, "decode-error", data, bak)
    ELSE IF dec.none THEN NormRet(label, "skip", data, bak)
    ELSE norm_write(data, bak, dry_run, backup, io, label, Utf8Encode(dec.val))

\* normalizer normalize_file, from the label on
norm_classified(data, bak, dry_run, backup, io, label) ==
    IF io = "read" THEN NormRaise(label, data, bak)
    ELSE IF label \in {"binary", "utf8-bom-invalid"} THEN NormRet(label, "skip", data, bak)
    ELSE norm_decoded(data, bak, dry_run, backup, io, label, decode_bytes(data, label))

\* normalizer: normalize_file(path, dry_run, backup, backup_ext)
norm_normalize_file(data, bak, dry_run, backup, io) ==
    norm_classified(data, bak, dry_run, backup, io, norm_classify(data))

FixRet(label, action, before, after, file, bak) ==
    [exc |-> FALSE, label |-> label, action |-> action, before |-> before,
     after |-> after, file |-> file, bak |-> bak]

FixRaise(label, file, bak) ==
    [exc |-> TRUE, label |-> label, action |-> "raise", before |-> 0,
     after |-> 0, file |-> file, bak |-> bak]

\* fixer normalize_file, from "if not changed" on; enc is
\* encode_text(text, label), evaluated by the last statement
fix_write(data, bak, apply, backup, io, label, before, changed, after, enc) ==
    IF ~changed THEN FixRet(label, "ok", before, after, data, bak)
    ELSE IF ~apply THEN FixRet(label, "dry-run", before, after, data, bak)
    ELSE IF backup THEN
        IF bak.exists THEN FixRet(label, "backup-exists", before, after, data, bak)
        ELSE IF ~enc.ok THEN FixRaise(label, data, File(data))
        ELSE IF io = "write" THEN FixRaise(label, data, File(data))
        ELSE FixRet(label, "write", before, after, enc.val, File(data))
    ELSE IF ~enc.ok THEN FixRaise(label, data, bak)
    ELSE IF io = "write" THEN FixRaise(label, data, bak)
    ELSE FixRet(label, "write", before, after, enc.val, bak)

\* fixer normalize_file, once the substitution map gave text
fix_mapped(data, bak, apply, backup, io, label, before, fixed, text) ==
    fix_write(data, bak, apply, backup, io, label, before,
              fixed.changed \/ text # fixed.text,
              mojibake_score(text), encode_text(text, label))

\* fixer normalize_file, the "if apply_map_flag and mapping" block; fixed is
\* the text after the "if fix_utf8" block and whether that block changed it
fix_repaired(data, bak, apply, backup, mapping, apply_map_flag, io, label, before, fixed) ==
    fix_mapped(data, bak, apply, backup, io, label, before, fixed,
               IF apply_map_flag /\ mapping # <<>>
               THEN apply_map(fixed.text, mapping)
               ELSE fixed.text)

\* fixer normalize_file, the try block around decode_bytes, the score before
\* and the "if fix_utf8" block
fix_decoded(data, bak, apply, backup, fix_utf8, mapping, apply_map_flag, io, label, dec) ==
    IF ~dec.ok THEN FixRet(label, "decode-error", 0, 0, data, bak)
    ELSE IF dec.none THEN FixRet(label, "skip", 0, 0, data, bak)
    ELSE fix_repaired(data, bak, apply, backup, mapping, apply_map_flag, io, label,
                      mojibake_score(dec.val),
                      IF fix_utf8 THEN fix_utf8_in_cp1252(dec.val)
                      ELSE [text |-> dec.val, changed |-> FALSE])

\* fixer normalize_file, from the label on
fix_classified(data, bak, apply, backup, fix_utf8, mapping, apply_map_flag, io, label) ==
    IF io = "read" THEN FixRaise(label, data, bak)
    ELSE IF label \in {"binary", "utf8-bom-invalid"}
    THEN FixRet(label, "skip", 0, 0, data, bak)
    ELSE fix_decoded(data, bak, apply, backup, fix_utf8, mapping, apply_map_flag, io,
                     label, decode_bytes(data, label))

\* fixer: normalize_file(path, apply, backup, backup_ext, fix_utf8, mapping,
\* apply_map_flag); mapping = <<>> is the None main passes for an empty dict
fix_normalize_file(data, bak, apply, backup, fix_utf8, mapping, apply_map_flag, io) ==
    fix_classified(data, bak, apply, backup, fix_utf8, mapping, apply_map_flag, io,
                   fix_classify(data))

RECURSIVE DictUpdate(_, _)
\* dict.update: a key already present keeps its place and takes the new value,
\* a new key is appended
DictUpdate(m, u) ==
    IF u = <<>> THEN m
    ELSE LET k == u[1][1]
             m2 == IF \E i \in 1..Len(m) : m[i][1] = k
                   THEN [i \in 1..Len(m) |-> IF m[i][1] = k THEN u[1] ELSE m[i]]
                   ELSE Append(m, u[1])
         IN  DictUpdate(m2, Tail(u))

\* fixer main: the mapping handed to normalize_file
fix_mapping(o) ==
    DictUpdate(IF o.spanish_defaults THEN SPANISH_DEFAULTS ELSE <<>>, o.map)

\* fixer main: apply_map_flag
fix_apply_map_flag(o) == o.spanish_defaults \/ o.fix_map

\* norm_call that does not pass args.dry_run on
norm_call_no_dry_run(data, bak, o, io) ==
    norm_normalize_file(data, bak, FALSE, o.backup, io)

\* normalizer main: the call of normalize_file with the parsed arguments
norm_call(data, bak, o, io) ==
    norm_normalize_file(data, bak, o.dry_run, o.backup, io)

\* fixer main: the call of normalize_file with the parsed arguments
fix_call(data, bak, o, io) ==
    fix_normalize_file(data, bak, o.apply, o.backup, ~o.no_fix_utf8,
                       fix_mapping(o), fix_apply_map_flag(o), io)

\* ------------------------------------------------------------------------
\* A batch run of one of the three tools
\* ------------------------------------------------------------------------

VARIABLES
    tool,       \* "check", "fix" or "norm": the script that runs
    opts,       \* the parsed command line (args)
    npaths,     \* length of the resolved path list (paths are 1..npaths)
    disk,       \* path -> [file, bak]: the file at the path and at its backup path
    disk0,      \* the disk when the run started
    pc,         \* position of main: "start", "loop", "done", "aborted"
    idx,        \* the path the loop of main is at
    results,    \* main's results list
    exit,       \* the exit status of the process, -1 while it runs
    input,      \* the bytes of the file a single function is applied to
    op,         \* the function applied to input, "input" before any
    out         \* what that function returned

batch == <<tool, opts, npaths, disk, disk0, pc, idx, results, exit>>

unit == <<input, op, out>>

vars == <<batch, unit>>

\* the single-function variables while a batch runs
UnitIdle == input = <<>> /\ op = "idle" /\ out = <<>>

\* file contents of the batch runs
BomE == <<239, 187, 191, 195, 169>>         \* BOM, UTF-8 of "é"

Mojibake == <<195, 131, 194, 169>>          \* UTF-8 of "Ã©"

Cp1252Lines == <<194, 133, 10, 233>>        \* cp1252 of "Â…", LF, "é"

HNul == <<104, 0>>                          \* "h", NUL

Undefined81 == <<129>>                      \* a byte cp1252 leaves undefined

\* a backup left by an earlier run
OldBackup == <<111, 108, 100>>

\* what a path of the batch holds when the run starts: nothing (the path is
\* not a regular file), or a file, with or without an older backup beside it
PathStates ==
    { [file |-> Absent, bak |-> Absent],
      [file |-> File(BomE), bak |-> Absent],
      [file |-> File(BomE), bak |-> File(OldBackup)],
      [file |-> File(Mojibake), bak |-> Absent],
      [file |-> File(Mojibake), bak |-> File(OldBackup)],
      [file |-> File(Cp1252Lines), bak |-> Absent],
      [file |-> File(HNul), bak |-> Absent],
      [file |-> File(Undefined81), bak |-> Absent] }

\* a --map file with one replacement, "é" -> "Ã"
UserMap == << << <<233>>, <<195>> >> >>

NoFlags ==
    [strict |-> FALSE, dry_run |-> FALSE, apply |-> FALSE, backup |-> FALSE,
     no_fix_utf8 |-> FALSE, spanish_defaults |-> FALSE, map |-> <<>>,
     fix_map |-> FALSE]

\* the repair flags of the fixer: none | --no-fix-utf8 --spanish-defaults |
\* --map FILE --fix-map
RepairFlags ==
    { [no_fix_utf8 |-> FALSE, spanish_defaults |-> FALSE, map |-> <<>>, fix_map |-> FALSE],
      [no_fix_utf8 |-> TRUE, spanish_defaults |-> TRUE, map |-> <<>>, fix_map |-> FALSE],
      [no_fix_utf8 |-> FALSE, spanish_defaults |-> FALSE, map |-> UserMap, fix_map |-> TRUE] }

\* the command lines of a tool
Options(t) ==
    IF t = "check" THEN
        {[NoFlags EXCEPT !.strict = s] : s \in BOOLEAN}
    ELSE IF t = "norm" THEN
        {[NoFlags EXCEPT !.strict = s, !.dry_run = d, !.backup = b] :
            s \in BOOLEAN, d \in BOOLEAN, b \in BOOLEAN}
    ELSE
        {[NoFlags EXCEPT !.strict = s, !.apply = a, !.backup = b,
                         !.no_fix_utf8 = m.no_fix_utf8,
                         !.spanish_defaults = m.spanish_defaults,
                         !.map = m.map, !.fix_map = m.fix_map] :
            s \in BOOLEAN, a \in BOOLEAN, b \in BOOLEAN, m \in RepairFlags}

Init ==
    /\ tool \in {"check", "fix", "norm"}
    /\ opts \in Options(tool)
    /\ npaths \in 0..MaxFiles
    /\ disk \in {d \in [1..MaxFiles -> PathStates] :
                    \A i \in 1..MaxFiles : i > npaths => d[i] = [file |-> Absent, bak |-> Absent]}
    /\ disk0 = disk
    /\ pc = "start"
    /\ idx = 1
    /\ results = <<>>
    /\ exit = -1
    /\ UnitIdle

\* main up to the loop: an empty path list (root-not-found, no-files-found)
\* returns 2
Discover ==
    /\ pc = "start"
    /\ IF npaths = 0
       THEN pc' = "done" /\ exit' = 2
       ELSE pc' = "loop" /\ exit' = exit
    /\ UNCHANGED <<unit, tool, opts, npaths, disk, disk0, idx, results>>

\* checker main: one iteration of the loop.  classify_file is called outside
\* any try: an exception of read_bytes leaves main, the interpreter prints the
\* traceback and exits with status 1.
CheckFile ==
    /\ pc = "loop"
    /\ tool = "check"
    /\ idx <= npaths
    /\ \E io \in IoOutcomes :
        IF ~disk[idx].file.exists THEN
            /\ idx' = idx + 1
            /\ UNCHANGED <<pc, exit, results>>
        ELSE IF io = "read" THEN
            /\ pc' = "aborted"
            /\ exit' = 1
            /\ UNCHANGED <<idx, results>>
        ELSE
            /\ results' = Append(results,
                    [path |-> idx] @@ classify_file(disk[idx].file.data))
            /\ idx' = idx + 1
            /\ UNCHANGED <<pc, exit>>
    /\ UNCHANGED <<unit, tool, opts, npaths, disk, disk0>>

\* fixer main: one iteration of the loop
FixFile ==
    /\ pc = "loop"
    /\ tool = "fix"
    /\ idx <= npaths
    /\ \E io \in IoOutcomes :
        IF ~disk[idx].file.exists THEN
            /\ idx' = idx + 1
            /\ UNCHANGED <<disk, results>>
        ELSE
            \E r \in {fix_call(disk[idx].file.data, disk[idx].bak, opts, io)} :
            /\ disk' = [disk EXCEPT ![idx] = [file |-> File(r.file), bak |-> r.bak]]
            /\ results' = Append(results,
                    IF r.exc
                    THEN [path |-> idx, size |-> Len(r.file), label |-> "unknown",
                          action |-> "error", before |-> 0, after |-> 0]
                    ELSE [path |-> idx, size |-> Len(r.file), label |-> r.label,
                          action |-> r.action, before |-> r.before, after |-> r.after])
            /\ idx' = idx + 1
    /\ UNCHANGED <<unit, tool, opts, npaths, disk0, pc, exit>>

\* normalizer main: one iteration of the loop
NormFile ==
    /\ pc = "loop"
    /\ tool = "norm"
    /\ idx <= npaths
    /\ \E io \in IoOutcomes :
        IF ~disk[idx].file.exists THEN
            /\ idx' = idx + 1
            /\ UNCHANGED <<disk, results>>
        ELSE
            \E r \in {norm_call(disk[idx].file.data, disk[idx].bak, opts, io)} :
            /\ disk' = [disk EXCEPT ![idx] = [file |-> File(r.file), bak |-> r.bak]]
            /\ results' = Append(results,
                    IF r.exc
                    THEN [path |-> idx, size |-> Len(r.file), label |-> "unknown",
                          action |-> "error"]
                    ELSE [path |-> idx, size |-> Len(r.file), label |-> r.label,
                          action |-> r.action])
            /\ idx' = idx + 1
    /\ UNCHANGED <<unit, tool, opts, npaths, disk0, pc, exit>>

\* counts.get(key, 0) of the summary dictionaries
CountOf(field, key) ==
    Cardinality({k \in 1..Len(results) : results[k][field] = key})

\* checker main after the loop: report, summary and return value
CheckReport ==
    /\ pc = "loop"
    /\ tool = "check"
    /\ idx > npaths
    /\ LET counts == {results[k].label : k \in 1..Len(results)}
           problem == \E l \in counts :
                          l \in {"utf8-bom", "utf8-bom-invalid", "utf16-le",
                                 "utf16-be", "binary"}
           text_encs == {l \in counts : l \in {"utf8", "ansi-cp1252"}}
           mixed_text == Cardinality(text_encs) > 1
       IN  exit' = IF opts.strict /\ (mixed_text \/ problem) THEN 1 ELSE 0
    /\ pc' = "done"
    /\ UNCHANGED <<unit, tool, opts, npaths, disk, disk0, idx, results>>

\* fixer main after the loop
FixReport ==
    /\ pc = "loop"
    /\ tool = "fix"
    /\ idx > npaths
    /\ LET problems == CountOf("action", "skip") + CountOf("action", "decode-error")
                           + CountOf("action", "error")
       IN  exit' = IF opts.strict /\ problems # 0 THEN 1 ELSE 0
    /\ pc' = "done"
    /\ UNCHANGED <<unit, tool, opts, npaths, disk, disk0, idx, results>>

\* normalizer main after the loop
NormReport ==
    /\ pc = "loop"
    /\ tool = "norm"
    /\ idx > npaths
    /\ LET problems == CountOf("action", "skip") + CountOf("action", "decode-error")
                           + CountOf("action", "error")
       IN  exit' = IF opts.strict /\ problems # 0 THEN 1 ELSE 0
    /\ pc' = "done"
    /\ UNCHANGED <<unit, tool, opts, npaths, disk, disk0, idx, results>>

Next ==
    \/ Discover
    \/ CheckFile
    \/ FixFile
    \/ NormFile
    \/ CheckReport
    \/ FixReport
    \/ NormReport

Spec == Init /\ [][Next]_vars

\* ------------------------------------------------------------------------
\* The functions of the scripts applied to one file
\* ------------------------------------------------------------------------

\* the byte strings files are made of:  "h" | LF | NUL | UTF-8 BOM |
\* UTF-16 LE BOM | cp1252 "é" | a byte cp1252 leaves undefined | UTF-8 "é" |
\* UTF-8 of "Ã©" | UTF-8 of "ï¿½" | UTF-8 of U+FFFD | "S"
Chunks ==
    { <<104>>, <<10>>, <<0>>, <<239, 187, 191>>, <<255, 254>>, <<233>>, <<129>>,
      <<195, 169>>, <<195, 131, 194, 169>>, <<195, 175, 194, 191, 194, 189>>,
      <<239, 191, 189>>, <<83>> }

RECURSIVE Concats(_)
\* the concatenations of at most n chunks
Concats(n) ==
    IF n = 0 THEN {<<>>}
    ELSE Concats(n - 1) \cup {c \o d : c \in Chunks, d \in Concats(n - 1)}

Inputs == Concats(MaxChunks)

\* the batch variables while a single function is applied
BatchIdle ==
    /\ tool = "none"
    /\ opts = NoFlags
    /\ npaths = 0
    /\ disk = [i \in 1..MaxFiles |-> [file |-> Absent, bak |-> Absent]]
    /\ disk0 = disk
    /\ pc = "done"
    /\ idx = 1
    /\ results = <<>>
    /\ exit = -1

UnitInit ==
    /\ BatchIdle
    /\ input \in Inputs
    /\ op = "input"
    /\ out = <<>>

\* the label each tool reports for the bytes, and that of the cascade
Classify ==
    /\ op = "input"
    /\ op' = "classify"
    /\ out' = [cascade |-> classify_bytes(input).label,
               check |-> classify_file(input).label,
               fix |-> fix_classify(input),
               norm |-> norm_classify(input)]
    /\ UNCHANGED <<batch, input>>

\* decode_bytes on the bytes and their label, as normalize_file calls it
Decode ==
    /\ op = "input"
    /\ op' = "decode"
    /\ \E l \in {fix_classify(input)} :
           out' = [label |-> l, dec |-> decode_bytes(input, l)]
    /\ UNCHANGED <<batch, input>>

\* fix_utf8_in_cp1252 on the text of the file, with the lines of its fallback
Repair ==
    /\ op = "input"
    /\ \E dec \in {decode_bytes(input, fix_classify(input))} :
        /\ dec.ok
        /\ ~dec.none
        /\ out' = [text |-> dec.val,
                   whole |-> Reencode(dec.val).ok,
                   lines |-> SplitLines(dec.val),
                   new_lines |-> repair_lines(SplitLines(dec.val)),
                   res |-> fix_utf8_in_cp1252(dec.val)]
    /\ op' = "repair"
    /\ UNCHANGED <<batch, input>>

\* the fixer on the file, under each combination of its repair flags
FixRun ==
    /\ op = "input"
    /\ \E a \in BOOLEAN, n \in BOOLEAN, sd \in BOOLEAN, m \in {<<>>, UserMap} :
        \E o \in {[NoFlags EXCEPT !.apply = a, !.no_fix_utf8 = n,
                                  !.spanish_defaults = sd, !.map = m,
                                  !.fix_map = (m # <<>>)]} :
            out' = [user_map |-> m # <<>>,
                    map_applied |-> fix_apply_map_flag(o) /\ fix_mapping(o) # <<>>,
                    r |-> fix_call(input, Absent, o, "ok")]
    /\ op' = "fix"
    /\ UNCHANGED <<batch, input>>

\* a writing run of the normalizer on the file
NormRun ==
    /\ op = "input"
    /\ \E r \in {norm_call(input, Absent, NoFlags, "ok")} :
           out' = [first |-> r, second |-> r]
    /\ op' = "norm"
    /\ UNCHANGED <<batch, input>>

\* a second writing run of the normalizer on what the first run left
NormRerun ==
    /\ op = "norm"
    /\ ~out.first.exc
    /\ out' = [out EXCEPT !.second = norm_call(out.first.file, Absent, NoFlags, "ok")]
    /\ op' = "norm-again"
    /\ UNCHANGED <<batch, input>>

UnitNext ==
    \/ Classify
    \/ Decode
    \/ Repair
    \/ FixRun
    \/ NormRun
    \/ NormRerun

UnitSpec == UnitInit /\ [][UnitNext]_vars

\* ------------------------------------------------------------------------
\* Properties of the batch runs
\* ------------------------------------------------------------------------

Mutating == tool \in {"fix", "norm"}

\* the run may write: --apply for the fixer, no --dry-run for the normalizer
WritingEnabled == (tool = "fix" /\ opts.apply) \/ (tool = "norm" /\ ~opts.dry_run)

\* the command line carries neither --apply nor --dry-run: the default
\* invocation of either mutating tool
DefaultInvocation == Mutating /\ ~opts.apply /\ ~opts.dry_run

\* a run of the same tool that only reports would find a change in the file
\* path i held when the run started
ChangeDetected(i) ==
    IF tool = "fix"
    THEN fix_call(disk0[i].file.data, Absent, [opts EXCEPT !.apply = FALSE], "ok").action
            = "dry-run"
    ELSE norm_call(disk0[i].file.data, Absent, [opts EXCEPT !.dry_run = TRUE], "ok").action
            = "dry-run"

\* C1 as stated: a default invocation (no apply flag given) of a mutating
\* tool never changes a file or a backup.  The normalizer writes by default.
C1_DefaultNeverWrites == DefaultInvocation => disk = disk0

\* C1, amended: the fixer without --apply and the normalizer with --dry-run
\* never write a target file and never create a backup; no file ends with
\* outcome write or backup-exists, and a file in which a change is detected
\* ends with outcome dry-run unless reading it failed.
C1_ReportOnlyNeverWrites ==
    (Mutating /\ ~WritingEnabled) =>
        /\ disk = disk0
        /\ \A k \in 1..Len(results) :
            /\ results[k].action \in {"ok", "skip", "decode-error", "dry-run", "error"}
            /\ (ChangeDetected(results[k].path) /\ results[k].action # "error"
                    => results[k].action = "dry-run")

\* the normalizer ran with --dry-run --backup over a file it would rewrite
C1_Witness ==
    /\ tool = "norm"
    /\ opts.dry_run
    /\ opts.backup
    /\ pc = "done"
    /\ \E k \in 1..Len(results) : results[k].action = "dry-run"

\* the files of the run that had a backup beside them when it started
Guarded(k) == disk0[results[k].path].bak.exists

\* C2 as stated: with writing and backup enabled, every file that has a
\* backup beside it ends with outcome backup-exists, file and backup
\* unchanged.  A file that needs no change ends with ok.
C2_AlwaysBackupExists ==
    (WritingEnabled /\ opts.backup) =>
        \A k \in 1..Len(results) :
            Guarded(k) =>
                /\ results[k].action = "backup-exists"
                /\ disk[results[k].path] = disk0[results[k].path]

\* C2, amended: with writing and backup enabled, a file that has a backup
\* beside it is never written and its backup never overwritten; it ends with
\* outcome backup-exists exactly when a change is detected in it (and it could
\* be read), and with ok, skip, decode-error or error otherwise.
C2_BackupGuard ==
    (WritingEnabled /\ opts.backup) =>
        \A k \in 1..Len(results) :
            Guarded(k) =>
                /\ disk[results[k].path] = disk0[results[k].path]
                /\ results[k].action \in
                       {"backup-exists", "ok", "skip", "decode-error", "error"}
                /\ (results[k].action = "backup-exists" => ChangeDetected(results[k].path))
                /\ (ChangeDetected(results[k].path) /\ results[k].action # "error"
                        => results[k].action = "backup-exists")

\* a writing run with backups met an older backup and refused to write
C2_Witness ==
    /\ WritingEnabled
    /\ opts.backup
    /\ \E k \in 1..Len(results) :
        /\ Guarded(k)
        /\ results[k].action = "backup-exists"
        /\ disk[results[k].path].bak = File(OldBackup)

\* C6: once the path list is not empty no failure on one file ends the run:
\* main never stops inside the loop, and when it returns every regular file of
\* the list has exactly one entry in results.
C6_NoAbort ==
    /\ pc # "aborted"
    /\ (pc = "done" /\ npaths > 0 =>
            \A i \in 1..npaths :
                disk0[i].file.exists =>
                    Cardinality({k \in 1..Len(results) : results[k].path = i}) = 1)

\* a problem in the sense of --strict
ProblemDetected ==
    IF tool = "check" THEN
        \/ \E k \in 1..Len(results) :
              results[k].label \in {"utf8-bom", "utf8-bom-invalid", "utf16-le",
                                    "utf16-be", "binary"}
        \/ /\ \E k \in 1..Len(results) : results[k].label = "utf8"
           /\ \E k \in 1..Len(results) : results[k].label = "ansi-cp1252"
    ELSE \E k \in 1..Len(results) :
            results[k].action \in {"skip", "decode-error", "error"}

\* C7: a run over a non-empty path list exits with 1 when --strict is set and
\* a problem was detected, and with 0 otherwise.
C7_ExitCode ==
    (pc \in {"done", "aborted"} /\ npaths > 0) =>
        exit = (IF opts.strict /\ ProblemDetected THEN 1 ELSE 0)

\* C10: a mutating tool creates a backup only for a file whose outcome is
\* write, holding the bytes the file had; with any other outcome the file and
\* its backup path are as they were when the run started.
C10_BackupOnlyOnWrite ==
    Mutating =>
        \A k \in 1..Len(results) :
            /\ (results[k].action = "write" /\ opts.backup =>
                    disk[results[k].path].bak = File(disk0[results[k].path].file.data))
            /\ (results[k].action # "write" =>
                    disk[results[k].path] = disk0[results[k].path])

\* ------------------------------------------------------------------------
\* Properties of the functions
\* ------------------------------------------------------------------------

\* C3: after a writing run of the normalizer that ended with write or ok, a
\* second run reports ok and leaves the bytes as the first run left them.
C3_Idempotent ==
    (op = "norm-again" /\ out.first.action \in {"write", "ok"}) =>
        /\ out.second.action = "ok"
        /\ out.second.file = out.first.file

\* C4 as stated: under every combination of the fixer's options, an outcome
\* write or dry-run reports a score after repair that is at most the score
\* before.  A --map file may put marker characters into the text.
C4_ScoreNeverIncreases ==
    (op = "fix" /\ out.r.action \in {"write", "dry-run"}) =>
        out.r.after <= out.r.before

\* C4, amended: when no --map file is loaded (the heuristic on or off, the
\* built-in Spanish replacements on or off), an outcome write or dry-run
\* reports a score after repair that is at most the score before.
C4_ScoreWithoutUserMap ==
    (op = "fix" /\ ~out.user_map /\ out.r.action \in {"write", "dry-run"}) =>
        out.r.after <= out.r.before

\* the fixer wrote a repair that lowered the score, no --map file loaded
C4_Witness ==
    /\ op = "fix"
    /\ ~out.user_map
    /\ out.r.action = "write"
    /\ out.r.after < out.r.before

\* the label of the ordered cascade, refined to ascii-only only when the
\* cascade says utf8 or ansi-cp1252
ExpectedLabel(data) ==
    IF /\ classify_bytes(data).label \in {"utf8", "ansi-cp1252"}
       /\ \A i \in 1..Len(data) : data[i] < 128
    THEN "ascii-only"
    ELSE classify_bytes(data).label

\* C5: the three tools report, for every byte sequence, the label of the
\* cascade with the ascii-only refinement of utf8 and ansi-cp1252.
C5_SameLabel ==
    op = "classify" =>
        /\ out.check = ExpectedLabel(input)
        /\ out.fix = ExpectedLabel(input)
        /\ out.norm = ExpectedLabel(input)

\* C8: bytes labelled ansi-cp1252 always decode, and encoding the text as
\* cp1252 gives the bytes back.
C8_Cp1252RoundTrip ==
    (op = "decode" /\ out.label = "ansi-cp1252") =>
        /\ out.dec.ok
        /\ Cp1252Encode(out.dec.val) = Good(input)

\* C9: fix_utf8_in_cp1252 reports changed only with a text of strictly lower
\* score, returns its input when it reports no change, replaces a line of the
\* fallback only if that line's score strictly decreases, and returns the
\* reassembled lines only if the score of the whole text strictly decreases.
C9_ScoreGated ==
    op = "repair" =>
        /\ (out.res.changed => mojibake_score(out.res.text) < mojibake_score(out.text))
        /\ (~out.res.changed => out.res.text = out.text)
        /\ (~out.whole =>
               \A i \in 1..Len(out.lines) :
                   out.new_lines[i].text # out.lines[i] =>
                       mojibake_score(out.new_lines[i].text) < mojibake_score(out.lines[i]))
        /\ (~out.whole /\ out.res.text # out.text =>
               /\ out.res.text = Join([i \in 1..Len(out.lines) |-> out.new_lines[i].text])
               /\ mojibake_score(out.res.text) < mojibake_score(out.text))

\* the whole-text round trip failed and the fallback repaired one line of
\* several
C9_Witness ==
    /\ op = "repair"
    /\ ~out.whole
    /\ out.res.changed
    /\ Len(out.lines) > 1
    /\ \E i \in 1..Len(out.lines) : out.new_lines[i].text = out.lines[i]

====
